---- MODULE Spec2Model ----
(***************************************************************************)
(* Model of the bookmarklet in src/my-bookmarklet-project/src/marklet.js:  *)
(* the two calendar builders (generateICS, generateGoogleCalendarLink) as  *)
(* functions of an event, the clock and the random source, and the         *)
(* selection flow (handleEventSelection, processEvents,                    *)
(* displayEventSelectionModal) as a state machine over the document.       *)
(*                                                                         *)
(* Text is a sequence of symbols.  A symbol is one character ("2", "a",    *)
(* "\n"), or a fixed piece of text the program writes as a whole           *)
(* ("BEGIN:VEVENT", "DTSTART:") and that stands for its characters.        *)
(***************************************************************************)
EXTENDS Integers, Sequences, FiniteSets, TLC

(***************************************************************************)
(* JavaScript values: the fields of an event are untyped JSON values.      *)
(***************************************************************************)
Undefined == [kind |-> "undefined", s |-> <<>>, n |-> 0]

Null == [kind |-> "null", s |-> <<>>, n |-> 0]

Str(s) == [kind |-> "string", s |-> s, n |-> 0]

\* A nested object as a field's value; s is its String().
Obj == [kind |-> "object", s |-> <<"[object Object]">>, n |-> 0]

\* An array as a field's value; s is its String(), the elements joined by ",".
Arr(s) == [kind |-> "array", s |-> s, n |-> 0]

NumV(n) == [kind |-> "number", s |-> <<>>, n |-> n]

\* ToBoolean, as applied by if (x), !x, x && y and x || y.
Truthy(v) ==
    \/ v.kind = "string" /\ Len(v.s) > 0
    \/ v.kind = "number" /\ v.n # 0
    \/ v.kind \in {"object", "array"}

\* A Number that may be NaN (the result of parseInt).
NaN == [nan |-> TRUE, v |-> 0]

Num(n) == [nan |-> FALSE, v |-> n]

isNaN(x) == x.nan

\* x - 1 on a Number: NaN - 1 is NaN.
MinusOne(x) == IF x.nan THEN NaN ELSE Num(x.v - 1)

(***************************************************************************)
(* Strings.                                                                *)
(***************************************************************************)
Digits == {"0", "1", "2", "3", "4", "5", "6", "7", "8", "9"}

DigitValue(c) ==
    CASE c = "0" -> 0 [] c = "1" -> 1 [] c = "2" -> 2 [] c = "3" -> 3
      [] c = "4" -> 4 [] c = "5" -> 5 [] c = "6" -> 6 [] c = "7" -> 7
      [] c = "8" -> 8 [] c = "9" -> 9

DigitChar(d) ==
    CASE d = 0 -> "0" [] d = 1 -> "1" [] d = 2 -> "2" [] d = 3 -> "3"
      [] d = 4 -> "4" [] d = 5 -> "5" [] d = 6 -> "6" [] d = 7 -> "7"
      [] d = 8 -> "8" [] d = 9 -> "9"

\* StrWhiteSpaceChar, what parseInt and trim skip: TAB, VT, FF, SP, NBSP,
\* ZWNBSP, the space separators (U+1680, U+2000..U+200A, U+202F, U+205F,
\* U+3000), LF, CR, LS and PS.  A character outside ASCII is one symbol, the
\* name of its code point: no other symbol of a text is white space.
WhiteSpace ==
    {" ", "\t", "\n", "\r", "\f", "", "U+00A0", "U+FEFF", "U+1680",
     "U+2000", "U+2001", "U+2002", "U+2003", "U+2004", "U+2005", "U+2006", "U+2007",
     "U+2008", "U+2009", "U+200A", "U+2028", "U+2029", "U+202F", "U+205F", "U+3000"}

Min(a, b) == IF a < b THEN a ELSE b

Max(a, b) == IF a > b THEN a ELSE b

\* String.prototype.substring(start, end): both clamped to [0, length], swapped
\* when start > end.
substring(s, start, end) ==
    LET a == Min(Max(start, 0), Len(s))
        b == Min(Max(end, 0), Len(s))
    IN  SubSeq(s, Min(a, b) + 1, Max(a, b))

\* String.prototype.slice(start, end): a negative index counts from the end.
slice(s, start, end) ==
    LET a == IF start < 0 THEN Max(Len(s) + start, 0) ELSE Min(start, Len(s))
        b == IF end < 0 THEN Max(Len(s) + end, 0) ELSE Min(end, Len(s))
    IN  SubSeq(s, a + 1, b)

\* String.prototype.substr(start, length), start >= 0.
substr(s, start, length) == SubSeq(s, Min(start, Len(s)) + 1, Min(start + length, Len(s)))

RECURSIVE SkipWhite(_)
SkipWhite(s) ==
    IF Len(s) > 0 /\ Head(s) \in WhiteSpace THEN SkipWhite(Tail(s)) ELSE s

RECURSIVE DigitPrefix(_)
DigitPrefix(s) ==
    IF Len(s) > 0 /\ Head(s) \in Digits
    THEN <<Head(s)>> \o DigitPrefix(Tail(s))
    ELSE <<>>

RECURSIVE DigitsToInt(_, _)
DigitsToInt(s, acc) ==
    IF Len(s) = 0 THEN acc
    ELSE DigitsToInt(Tail(s), 10 * acc + DigitValue(Head(s)))

\* The digits d read by parseInt, negated after a minus sign; NaN without a digit.
ParseDigits(d, neg) ==
    IF Len(d) = 0 THEN NaN
    ELSE Num(IF neg THEN 0 - DigitsToInt(d, 0) ELSE DigitsToInt(d, 0))

\* parseInt after the leading white space: one sign is accepted, the longest
\* run of digits is read and the rest is ignored.
ParseSigned(t) ==
    IF Len(t) > 0 /\ Head(t) \in {"+", "-"}
    THEN ParseDigits(DigitPrefix(Tail(t)), Head(t) = "-")
    ELSE ParseDigits(DigitPrefix(t), FALSE)

\* parseInt(s, 10)
parseInt(s) == ParseSigned(SkipWhite(s))

RECURSIVE NatToStr(_)
NatToStr(n) ==
    IF n < 10 THEN <<DigitChar(n)>>
    ELSE NatToStr(n \div 10) \o <<DigitChar(n % 10)>>

\* Number.prototype.toString() of an integer.
ToStr(n) == IF n < 0 THEN <<"-">> \o NatToStr(0 - n) ELSE NatToStr(n)

RECURSIVE padStart(_, _, _)
padStart(s, len, c) == IF Len(s) >= len THEN s ELSE padStart(<<c>> \o s, len, c)

RECURSIVE RemoveAll(_, _)
RemoveAll(s, chars) ==
    IF Len(s) = 0 THEN <<>>
    ELSE (IF Head(s) \in chars THEN <<>> ELSE <<Head(s)>>) \o RemoveAll(Tail(s), chars)

\* .replace(/[-:.]/g, '')
StripPunct(s) == RemoveAll(s, {"-", ":", "."})

RECURSIVE EscapeNewlines(_)
\* .replace(/\n/g, '\\n'): each line feed becomes a backslash and the letter n.
EscapeNewlines(s) ==
    IF Len(s) = 0 THEN <<>>
    ELSE (IF Head(s) = "\n" THEN <<"\\", "n">> ELSE <<Head(s)>>)
         \o EscapeNewlines(Tail(s))

(***************************************************************************)
(* Date.  A time value is kept as the day number since 1970-01-01, the     *)
(* second of that day and the millisecond of that second.                  *)
(***************************************************************************)


\* Day number of y-m-d (m in 1..12), proleptic Gregorian: MakeDay.
DaysFromCivil(y, m, d) ==
    LET yy == IF m <= 2 THEN y - 1 ELSE y
        yoe == yy % 400
    IN  (yy \div 400) * 146097 + yoe * 365 + yoe \div 4 - yoe \div 100
        + (153 * ((m + 9) % 12) + 2) \div 5 + d - 1 - 719468

\* The civil date of day doy (0-based, counted from 1 March) of the year yoe
\* of the 400-year era.
CivilOfDayOfYear(era, yoe, doy, mp) ==
    [year |-> yoe + era * 400 + (IF mp < 10 THEN 0 ELSE 1),
     month |-> IF mp < 10 THEN mp + 3 ELSE mp - 9,
     date |-> doy - (153 * mp + 2) \div 5 + 1]

CivilOfYearOfEra(era, doe, yoe) ==
    CivilOfDayOfYear(era, yoe, doe - (365 * yoe + yoe \div 4 - yoe \div 100),
                     (5 * (doe - (365 * yoe + yoe \div 4 - yoe \div 100)) + 2) \div 153)

CivilOfDayOfEra(era, doe) ==
    CivilOfYearOfEra(era, doe,
                     (doe - doe \div 1460 + doe \div 36524 - doe \div 146096) \div 365)

\* YearFromTime, MonthFromTime (1..12) and DateFromTime of a day number.
CivilFromDays(z) == CivilOfDayOfEra((z + 719468) \div 146097, (z + 719468) % 146097)

\* Date.UTC(year, month, day, hour, minute, second) with integer arguments:
\* a year of 0..99 means 1900 + year, month is 0-based, and every component
\* out of its range carries into the next larger one.
DateUTC(year, month, day, hour, minute, second) ==
    [day |-> DaysFromCivil((IF 0 <= year /\ year <= 99 THEN 1900 + year ELSE year)
                             + month \div 12,
                           (month % 12) + 1, 1)
             + day - 1 + (hour * 3600 + minute * 60 + second) \div 86400,
     sec |-> (hour * 3600 + minute * 60 + second) % 86400,
     ms |-> 0]

\* new Date(d.getTime() + seconds * 1000)
AddSeconds(d, seconds) ==
    [day |-> d.day + (d.sec + seconds) \div 86400,
     sec |-> (d.sec + seconds) % 86400,
     ms |-> d.ms]

getUTCFullYear(d) == CivilFromDays(d.day).year

\* getUTCMonth is 0-based.
getUTCMonth(d) == CivilFromDays(d.day).month - 1

getUTCDate(d) == CivilFromDays(d.day).date

TwoDigits(n) == padStart(NatToStr(n), 2, "0")

\* The year of an ISO date: four digits, or a sign and six digits outside 0..9999.
ISOYear(year) ==
    IF 0 <= year /\ year <= 9999 THEN padStart(NatToStr(year), 4, "0")
    ELSE IF year < 0 THEN <<"-">> \o padStart(NatToStr(0 - year), 6, "0")
    ELSE <<"+">> \o padStart(NatToStr(year), 6, "0")

ISOText(c, d) ==
    ISOYear(c.year) \o <<"-">> \o TwoDigits(c.month) \o <<"-">> \o TwoDigits(c.date)
    \o <<"T">> \o TwoDigits(d.sec \div 3600) \o <<":">> \o TwoDigits((d.sec \div 60) % 60)
    \o <<":">> \o TwoDigits(d.sec % 60) \o <<".">> \o padStart(NatToStr(d.ms), 3, "0")
    \o <<"Z">>

\* Date.prototype.toISOString: YYYY-MM-DDTHH:mm:ss.sssZ
toISOString(d) == ISOText(CivilFromDays(d.day), d)

\* Decimal text of high * 1000000 + low * 1000 + ms.
EpochText(high, low, ms) ==
    IF high > 0
    THEN NatToStr(high) \o padStart(NatToStr(low), 3, "0") \o padStart(NatToStr(ms), 3, "0")
    ELSE IF low > 0 THEN NatToStr(low) \o padStart(NatToStr(ms), 3, "0")
    ELSE NatToStr(ms)

\* Date.prototype.getTime() as decimal text, for an instant not before 1970:
\* the epoch seconds are day * 86400 + sec, computed in two halves base 1000.
getTimeText(d) ==
    EpochText(d.day * 86 + (d.day * 400 + d.sec) \div 1000, (d.day * 400 + d.sec) % 1000, d.ms)

(***************************************************************************)
(* Events.  An event is an object of the extraction service's response     *)
(* with the fields title, date, time and description, each any JSON value. *)
(***************************************************************************)
Event(title, date, time, description) ==
    [type |-> "object", title |-> title, date |-> date, time |-> time,
     description |-> description]

\* An array element that is no event object: null, a string, a number, or an
\* array (typeof "object", without the three properties).  Reading a property
\* of null raises a TypeError, of the others gives undefined.
NonEvent(type) ==
    [type |-> type, title |-> Undefined, date |-> Undefined, time |-> Undefined,
     description |-> Undefined]

\* `${v || fallback}`: the value as template text, or the fallback text.
TextOr(v, fallback) ==
    IF ~Truthy(v) THEN fallback
    ELSE IF v.kind = "number" THEN ToStr(v.n) ELSE v.s

\* v.substring(...) or v.replace(...) on a truthy value that is no string:
\* the property is undefined and the call raises a TypeError.
NoStringMethods(v) == Truthy(v) /\ v.kind # "string"

\* Lines 61-63 and 173-175: the three fixed-offset slices of the date.
ParseDate(date) ==
    [year |-> parseInt(substring(date.s, 0, 4)),
     month |-> MinusOne(parseInt(substring(date.s, 4, 6))),
     day |-> parseInt(substring(date.s, 6, 8))]

\* Lines 68-70 and 196-198: the three fixed-offset slices of the time.
ParseTime(time) ==
    [hour |-> parseInt(substring(time.s, 0, 2)),
     minute |-> parseInt(substring(time.s, 2, 4)),
     second |-> parseInt(substring(time.s, 4, 6))]

DateParsed(d) == ~isNaN(d.year) /\ ~isNaN(d.month) /\ ~isNaN(d.day)

TimeParsed(t) == ~isNaN(t.hour) /\ ~isNaN(t.minute) /\ ~isNaN(t.second)

FormatCivil(c) ==
    ToStr(c.year) \o padStart(ToStr(c.month), 2, "0") \o padStart(ToStr(c.date), 2, "0")

\* formatDateToICSDate and formatDateToGoogleDate: the year as the number
\* prints, the month and the day padded to two digits.
formatDate(d) == FormatCivil(CivilFromDays(d.day))

\* .toISOString().replace(/[-:.]/g, '').slice(0, -4) + 'Z' (lines 76-79, 129-132)
formatICSInstant(d) == slice(StripPunct(toISOString(d)), 0, -4) \o <<"Z">>

\* .toISOString().replace(/[-:.]/g, '') + 'Z' (lines 55-57)
formatStamp(d) == StripPunct(toISOString(d)) \o <<"Z">>

\* formatToGoogleUTC (lines 216-217)
formatToGoogleUTC(d) == slice(StripPunct(toISOString(d)), 0, 15) \o <<"Z">>

(***************************************************************************)
(* generateICS.  reads is what the clock reads while one event's block is  *)
(* written: for the UID (line 52), for DTSTAMP (line 55) and for the       *)
(* fallback start (line 129 or 141); rand is the text Math.random yields   *)
(* for the UID.                                                            *)
(***************************************************************************)
Lines(threw, variant, text) == [threw |-> threw, variant |-> variant, text |-> text]

\* Lines 129-132 and 141-144: the current time as the start.
ICSFallback(tick) ==
    Lines(FALSE, "fallback", <<"DTSTART:">> \o formatICSInstant(tick) \o <<"\n">>)

\* Lines 89-103 and 107-121: the day and the day after it as dates.
ICSAllDay(d) ==
    Lines(FALSE, "allday",
          <<"DTSTART;VALUE=DATE:">>
          \o formatDate(DateUTC(d.year.v, d.month.v, d.day.v, 0, 0, 0))
          \o <<"\n", "DTEND;VALUE=DATE:">>
          \o formatDate(DateUTC(d.year.v, d.month.v, d.day.v + 1, 0, 0, 0))
          \o <<"\n">>)

\* Lines 72-104: a time that parsed gives an instant, any other the day.
ICSTimed(d, t) ==
    IF TimeParsed(t)
    THEN Lines(FALSE, "timed",
               <<"DTSTART:">>
               \o formatICSInstant(DateUTC(d.year.v, d.month.v, d.day.v,
                                           t.hour.v, t.minute.v, t.second.v))
               \o <<"\n">>)
    ELSE ICSAllDay(d)

\* Lines 65-133, with the date's three numbers d.
ICSParsedDateLines(event, tick, d) ==
    IF ~DateParsed(d) THEN ICSFallback(tick)
    ELSE IF ~Truthy(event.time) THEN ICSAllDay(d)
    ELSE IF NoStringMethods(event.time) THEN Lines(TRUE, "none", <<>>)
    ELSE ICSTimed(d, ParseTime(event.time))

\* Lines 60-145: the date lines of one event, and which branch wrote them.
ICSDateLines(event, tick) ==
    IF ~Truthy(event.date) THEN ICSFallback(tick)
    ELSE IF NoStringMethods(event.date) THEN Lines(TRUE, "none", <<>>)
    ELSE ICSParsedDateLines(event, tick, ParseDate(event.date))

\* Lines 51-58: the head of one block.
ICSBlockHead(event, reads, rand) ==
    <<"BEGIN:VEVENT", "\n", "UID:">> \o getTimeText(reads.uid) \o <<"-">> \o rand
    \o <<"@mybookmarklet", "\n", "DTSTAMP:">> \o formatStamp(reads.stamp)
    \o <<"\n", "SUMMARY:">> \o TextOr(event.title, <<"No Title">>) \o <<"\n">>

\* Lines 147-150: the description, its line feeds escaped, and the block's end.
ICSBlockTail(event) ==
    <<"DESCRIPTION:">>
    \o EscapeNewlines(TextOr(event.description, <<"No Description">>))
    \o <<"\n", "END:VEVENT", "\n">>

ICSBlockAround(event, reads, rand, lines) ==
    IF lines.threw \/ NoStringMethods(event.description)
    THEN Lines(TRUE, lines.variant, <<>>)
    ELSE Lines(FALSE, lines.variant,
               ICSBlockHead(event, reads, rand) \o lines.text \o ICSBlockTail(event))

\* Lines 50-151: one pass of the forEach; event.title of a null element
\* raises a TypeError (line 58).
ICSBlock(event, reads, rand) ==
    IF event.type = "null" THEN Lines(TRUE, "none", <<>>)
    ELSE ICSBlockAround(event, reads, rand, ICSDateLines(event, reads.start))

Blocks(threw, text, variants) == [threw |-> threw, text |-> text, variants |-> variants]

JoinBlocks(b, rest) ==
    IF b.threw \/ rest.threw THEN Blocks(TRUE, <<>>, <<>>)
    ELSE Blocks(FALSE, b.text \o rest.text, <<b.variant>> \o rest.variants)

RECURSIVE ICSBlocks(_, _, _, _)
\* The forEach from the k-th event on.
ICSBlocks(evs, reads, rands, k) ==
    IF k > Len(evs) THEN Blocks(FALSE, <<>>, <<>>)
    ELSE JoinBlocks(ICSBlock(evs[k], reads[k], rands[k]),
                    ICSBlocks(evs, reads, rands, k + 1))

ICSResult(kind, alerts, text, variants) ==
    [kind |-> kind, alerts |-> alerts, text |-> text, variants |-> variants]

\* Lines 48-158: the header, the blocks and the footer behind the blob URL.
ICSDocument(blocks) ==
    IF blocks.threw THEN ICSResult("throw", <<>>, <<>>, <<>>)
    ELSE ICSResult("url", <<>>,
                   <<"BEGIN:VCALENDAR", "\n", "VERSION:2.0", "\n",
                     "PRODID:-//MyBookmarklet//EN", "\n">>
                   \o blocks.text \o <<"END:VCALENDAR">>,
                   blocks.variants)

\* generateICS(events): null and an alert for no events, else the calendar
\* document behind the blob URL it returns.
generateICS(evs, reads, rands) ==
    IF Len(evs) = 0
    THEN ICSResult("null", <<"No events selected to generate ICS.">>, <<>>, <<>>)
    ELSE ICSDocument(ICSBlocks(evs, reads, rands, 1))

(***************************************************************************)
(* generateGoogleCalendarLink.  today is what new Date() returns and       *)
(* localDay the seconds from today to the same local time on the next      *)
(* local day (setDate(getDate() + 1)): 86400, or an hour off across a      *)
(* daylight saving change.                                                 *)
(***************************************************************************)
Range(threw, variant, start, end) ==
    [threw |-> threw, variant |-> variant, start |-> start, end |-> end]

\* Lines 205-208 and 223-226: the day and the day after it as dates.
GoogleAllDay(d) ==
    Range(FALSE, "allday",
          formatDate(DateUTC(d.year.v, d.month.v, d.day.v, 0, 0, 0)),
          formatDate(DateUTC(d.year.v, d.month.v, d.day.v + 1, 0, 0, 0)))

\* Lines 211-219: the instant and the instant an hour later.
GoogleInstant(startDate) ==
    Range(FALSE, "timed", formatToGoogleUTC(startDate),
          formatToGoogleUTC(AddSeconds(startDate, 3600)))

\* Lines 200-220
GoogleTimed(d, t) ==
    IF ~TimeParsed(t) THEN GoogleAllDay(d)
    ELSE GoogleInstant(DateUTC(d.year.v, d.month.v, d.day.v,
                               t.hour.v, t.minute.v, t.second.v))

\* Lines 184-227, with the date's three numbers d.
GoogleParsedDates(event, today, localDay, d) ==
    IF ~DateParsed(d)
    THEN Range(FALSE, "fallbackday", formatDate(today),
               formatDate(AddSeconds(today, localDay)))
    ELSE IF ~Truthy(event.time) THEN GoogleAllDay(d)
    ELSE IF NoStringMethods(event.time) THEN Range(TRUE, "none", <<>>, <<>>)
    ELSE GoogleTimed(d, ParseTime(event.time))

\* Lines 170-227: the start and end texts, and which branch wrote them.
GoogleDates(event, today, localDay) ==
    IF NoStringMethods(event.date) THEN Range(TRUE, "none", <<>>, <<>>)
    ELSE GoogleParsedDates(event, today, localDay, ParseDate(event.date))

Link(kind, variant, text, start, end, details) ==
    [kind |-> kind, variant |-> variant, text |-> text,
     dates |-> IF kind = "url" THEN start \o <<"/">> \o end ELSE <<>>,
     start |-> start, end |-> end, details |-> details]

\* Lines 229-241: the key/value pairs handed to URLSearchParams behind the
\* fixed base URL.
GoogleLink(event, pageUrl, g) ==
    IF g.threw THEN Link("throw", "none", <<>>, <<>>, <<>>, <<>>)
    ELSE Link("url", g.variant,
              <<"[Bookmarklet-events] ">> \o TextOr(event.title, <<"No Title">>),
              g.start, g.end,
              <<"Original URL: ">> \o pageUrl \o <<"\n", "\n">>
              \o TextOr(event.description, <<>>))

\* generateGoogleCalendarLink(event, pageUrl): null without an event, a title
\* or a date.
generateGoogleCalendarLink(event, pageUrl, today, localDay) ==
    IF event.type = "null" \/ ~Truthy(event.title) \/ ~Truthy(event.date)
    THEN Link("null", "none", <<>>, <<>>, <<>>, <<>>)
    ELSE GoogleLink(event, pageUrl, GoogleDates(event, today, localDay))

(***************************************************************************)
(* State.                                                                  *)
(*   events, icsOut, linkOut: an event sequence and what the two builders  *)
(*     returned for it;                                                    *)
(*   invs: the invocations of handleEventSelection, one per trigger click; *)
(*   dom: the elements with id eventSelectionModal, in document order;     *)
(*   nodes: how many modal elements were ever created;                     *)
(*   lastOpen: the outcome of the last "Add to Google Calendar" click.     *)
(***************************************************************************)
VARIABLES events, icsOut, linkOut, invs, dom, nodes, lastOpen

vars == <<events, icsOut, linkOut, invs, dom, nodes, lastOpen>>

calVars == <<events, icsOut, linkOut>>

uiVars == <<invs, dom, nodes, lastOpen>>

AlertEmptyPage == "Could not retrieve page text content or content is empty."

AlertServerError == "Error processing events with local server: <status> <body>"

AlertCallFailed == "Failed to call the local event processing service."

AlertNoEvents == "No events found or processed by the local server, or the format is incorrect."

AlertNoValid == "No valid events with title, date, and time found in the response."

\* What processEvents returns: null, or the parsed JSON body.
JsonNull == [type |-> "null", items |-> <<>>]

JsonObject == [type |-> "object", items |-> <<>>]

JsonArray(items) == [type |-> "array", items |-> items]

\* A body that cannot be read, or that is no JSON.
BodyFailed == [type |-> "failed", items |-> <<>>]

\* The text of an error response.
BodyText == [type |-> "text", items |-> <<>>]

\* A reaction job of a settled promise is queued: it runs before any other
\* task (a click, a network event).
MicrotaskPending == \E i \in 1..Len(invs) : invs[i].pc = "resolved"

\* pageText.trim() === ''
IsBlank(s) == Len(SkipWhite(s)) = 0

\* Lines 360-367: the filter of handleEventSelection.
IsValidEvent(e) ==
    e.type \in {"object", "array"} /\ Truthy(e.title) /\ Truthy(e.date) /\ Truthy(e.time)

RECURSIVE Filter(_)
Filter(items) ==
    IF Len(items) = 0 THEN <<>>
    ELSE (IF IsValidEvent(Head(items)) THEN <<Head(items)>> ELSE <<>>)
         \o Filter(Tail(items))

\* A display that leaves an existing modal in the document.
KeepExisting(d) == d

\* Lines 246-249: getElementById finds the first element with the id, and
\* that one is removed.
RemoveExisting(d) == IF Len(d) > 0 THEN Tail(d) ELSE d

\* A modal that lists every event it is given.
ListedAll(evs) == evs

\* Line 273: events.slice(0, 5)
ListedEvents(evs) == SubSeq(evs, 1, Min(5, Len(evs)))

\* displayEventSelectionModal(events, pageUrl): the document's modals after it.
displayEventSelectionModal(d, evs, node) ==
    Append(RemoveExisting(d), [node |-> node, listed |-> ListedEvents(evs)])

\* modal.remove() of the Close button's own modal.
RECURSIVE RemoveNode(_, _)
RemoveNode(d, node) ==
    IF Len(d) = 0 THEN <<>>
    ELSE (IF Head(d).node = node THEN <<>> ELSE <<Head(d)>>) \o RemoveNode(Tail(d), node)

NoLink == Link("none", "none", <<>>, <<>>, <<>>, <<>>)

NoICS == ICSResult("none", <<>>, <<>>, <<>>)

(***************************************************************************)
(* Inputs.                                                                 *)
(***************************************************************************)
MaxMonth == 13

MaxDay == 32

MaxEvents == 2

MaxClicks == 2

MaxResp == 6

YearTexts ==
    {<<"2", "0", "2", "4">>, <<"9", "9", "9", "9">>}

\* Every YYYYMMDD of a listed year with month 00..MaxMonth and day 00..MaxDay:
\* the calendar dates, and the months and days just outside the calendar.
GridDates ==
    {y \o padStart(NatToStr(m), 2, "0") \o padStart(NatToStr(d), 2, "0") :
        y \in YearTexts, m \in 0..MaxMonth, d \in 0..MaxDay}

\* Dates of another length, or with a character that is no digit.
OddDates ==
    {
    <<"2", "0", "2", "5">>, <<"2", "0", "2", "5", "0", "6">>,
    <<"2", "0", "2", "5", "0", "6", "1">>, <<"2", "0", "2", "5", "0", "6", "1", "5", "0">>,
    <<"2", "0", "2", "5", "-", "0", "6", "-", "1", "5">>, <<"2", "0", "a", "5", "0", "6", "1", "5">>,
    <<"a", "b", "c", "d", "0", "6", "1", "5">>, <<" ", "2", "0", "2", "0", "6", "1", "5">>,
    <<"-", "0", "0", "1", "0", "6", "1", "5">>, <<"2", "0", "2", "5", "1", "a", "1", "5">>,
    <<"2", "0", "2", "5", "a", "1", "1", "5">>, <<"2", "0", "2", "5", "0", "6", "1", "x">>,
    <<"2", "0", "2", "5", "0", "6", "x", "1">>, <<"2", "0", "2", "5", " ", "6", "1", "5">>,
    <<"t", "o", "m", "o", "r", "r", "o", "w">>, <<"1">>}

SomeDates ==
    {
    <<"2", "0", "2", "5", "0", "6", "1", "5">>, <<"2", "0", "2", "4", "0", "2", "2", "8">>,
    <<"2", "0", "2", "5", "1", "2", "3", "1">>, <<"9", "9", "9", "9", "1", "2", "3", "1">>,
    <<"0", "0", "5", "0", "0", "1", "0", "1">>, <<"2", "0", "2", "5", "1", "3", "0", "1">>,
    <<"2", "0", "2", "5", "0", "2", "3", "0">>, <<"0", "1", "0", "0", "0", "1", "0", "1">>,
    <<"2", "0", "2", "5", "0", "2", "2", "8">>}

\* Times: six digits in and out of range, and texts that are not six digits.
TimeTexts ==
    {
    <<"0", "0", "0", "0", "0", "0">>, <<"0", "9", "0", "0", "0", "0">>, <<"1", "4", "0", "0", "0", "0">>,
    <<"2", "3", "0", "0", "0", "0">>, <<"2", "3", "5", "9", "5", "9">>, <<"2", "4", "0", "0", "0", "0">>,
    <<"1", "4", "6", "0", "0", "0">>, <<"1", "4", "0", "0", "6", "0">>, <<"1", "a", "0", "0", "0", "0">>,
    <<"1", "4", "a", "0", "0", "0">>, <<"1", "4", "0", "0", "a", "0">>, <<"1", "4", "0", "0", "0">>,
    <<"1", "4", "0", "0">>, <<"1", "4">>, <<"1">>,
    <<"1", "4", "0", "0", "0", "0", "0">>, <<"1", "4", ":", "0", "0", ":", "0", "0">>, <<"a", "b", "c", "d", "e", "f">>,
    <<" ", "9", "0", "0", "0", "0">>, <<"-", "1", "0", "0", "0", "0">>, <<"n", "o", "o", "n">>,
    <<"\f", "9", "0", "0", "0", "0">>}

GridTimes == {Undefined, Str(<<"2", "3", "0", "0", "0", "0">>)}

AllTimes == {Undefined, Null, Str(<<>>), NumV(140000), NumV(0), Obj, Arr(<<"1", ",", "2">>)} \cup {Str(t) : t \in TimeTexts}

AllDates == {Undefined, Null, Str(<<>>), NumV(20250615), Obj, Arr(<<>>)}
            \cup {Str(d) : d \in OddDates \cup SomeDates}

\* One event, for the date and time handling of the two builders.
DateInputs ==
    {<<Event(Str(<<"A">>), Str(d), t, Undefined)>> : d \in GridDates, t \in GridTimes}
    \cup {<<Event(Str(<<"A">>), d, t, Undefined)>> : d \in AllDates, t \in AllTimes}

Titles == {Undefined, Str(<<"A">>), Str(<<"B">>),
           Str(<<"A", "\n", "BEGIN:VEVENT">>), Str(<<"A", "\n", "END:VEVENT">>)}

Descriptions == {Undefined, Str(<<"K", "i", "c", "k">>),
                 Str(<<"a", "\n", "END:VEVENT", "\n", "b">>)}

DocEvents ==
    {Event(t, Str(<<"2", "0", "2", "5", "0", "1", "0", "1">>),
           Str(<<"0", "9", "0", "0", "0", "0">>), x) : t \in Titles, x \in Descriptions}

\* Event sequences of 0..MaxEvents events, for the document generateICS builds.
DocInputs == UNION {[1..n -> DocEvents] : n \in 0..MaxEvents}

PageUrl == <<"https://example.org/events">>

\* The instant y-m-d h:mi:s.ms UTC (m is 1..12).
Instant(y, m, d, h, mi, s, ms) ==
    [day |-> DaysFromCivil(y, m, d), sec |-> h * 3600 + mi * 60 + s, ms |-> ms]

\* What the clock may read when a builder runs.
Nows == {Instant(2025, 6, 15, 14, 0, 0, 123), Instant(2025, 12, 31, 23, 30, 0, 0)}

\* The three clock reads of one block of generateICS, each any of Nows.
Reads == [uid : Nows, stamp : Nows, start : Nows]

\* Math.random().toString(36).substr(2, 9): up to nine base-36 digits, none
\* when Math.random() returns 0.
Rands == {substr(<<"0">>, 2, 9), substr(<<"0", ".", "k", "3", "f", "z", "0", "q", "9", "w", "b", "7", "x">>, 2, 9)}

\* Seconds from an instant to the same local time on the next local day.
LocalDays == {82800, 86400, 90000}

(***************************************************************************)
(* The builders as operations on one input.                                *)
(***************************************************************************)
InitCal ==
    /\ events \in DateInputs \cup DocInputs
    /\ icsOut = NoICS
    /\ linkOut = NoLink
    /\ invs = <<>>
    /\ dom = <<>>
    /\ nodes = 0
    /\ lastOpen = NoLink

GenerateICS ==
    /\ icsOut.kind = "none"
    /\ \E reads \in [1..Len(events) -> Reads], rands \in [1..Len(events) -> Rands] :
          icsOut' = generateICS(events, reads, rands)
    /\ UNCHANGED <<events, linkOut, uiVars>>

GenerateGoogleCalendarLink ==
    /\ linkOut.kind = "none"
    /\ Len(events) > 0
    /\ \E today \in Nows, localDay \in LocalDays :
          linkOut' = generateGoogleCalendarLink(events[1], PageUrl, today, localDay)
    /\ UNCHANGED <<events, icsOut, uiVars>>

NextCal == GenerateICS \/ GenerateGoogleCalendarLink

SpecCal == InitCal /\ [][NextCal]_vars

(***************************************************************************)
(* The selection flow.                                                     *)
(***************************************************************************)
\* The events of the responses.
Launch ==
    Event(Str(<<"L", "a", "u", "n", "c", "h">>), Str(<<"2", "0", "2", "5", "0", "1", "0", "1">>),
          Str(<<"0", "9", "0", "0", "0", "0">>), Str(<<"K", "i", "c", "k", "o", "f", "f">>))

Sync ==
    Event(Str(<<"T", "e", "a", "m", " ", "S", "y", "n", "c">>),
          Str(<<"2", "0", "2", "5", "0", "6", "1", "5">>),
          Str(<<"1", "4", "0", "0", "0", "0">>), Undefined)

\* Accepted by the filter, with a date that is no string.
Numeric ==
    Event(Str(<<"N">>), NumV(20250101), Str(<<"0", "9", "0", "0", "0", "0">>), Undefined)

\* Without a time: the filter rejects it.
Standup ==
    Event(Str(<<"S", "t", "a", "n", "d", "u", "p">>),
          Str(<<"2", "0", "2", "5", "0", "1", "0", "1">>), Undefined, Undefined)

\* Elements the filter rejects.
Rejected ==
    {Standup, NonEvent("null"), NonEvent("string"), NonEvent("array"),
     Event(Undefined, Launch.date, Launch.time, Undefined),
     Event(Str(<<>>), Launch.date, Launch.time, Undefined),
     Event(Launch.title, Null, Launch.time, Undefined),
     Event(Launch.title, Launch.date, Str(<<>>), Undefined),
     Event(Launch.title, Launch.date, NumV(0), Undefined)}

\* Every array of 0..MaxResp elements over Launch, Sync and Standup, every
\* array of up to two elements over Launch and the rejected elements, and two
\* bodies that are no array.
SelectBodies ==
    UNION {{JsonArray(a) : a \in [1..n -> {Launch, Sync, Standup}]} : n \in 0..MaxResp}
    \cup UNION {{JsonArray(a) : a \in [1..n -> {Launch} \cup Rejected]} : n \in 1..2}
    \cup {JsonNull, JsonObject}

\* A few responses, for the interleavings of several invocations.
FewBodies ==
    {JsonNull, JsonObject, JsonArray(<<>>), JsonArray(<<Standup>>), JsonArray(<<Launch>>),
     JsonArray(<<Numeric, Sync>>)}

PageTexts == {<<>>, <<" ", "\n">>, <<"U+00A0">>, <<"F", "r", "i", "d", "a", "y">>}

\* node is the modal element the invocation created, 0 when it created none.
Invocation(pc, ok, alerts, result, node) ==
    [pc |-> pc, ok |-> ok, alerts |-> alerts, result |-> result, node |-> node]

\* Lines 341-349: a click on the trigger button.  It alerts and returns for an
\* empty page, else calls processEvents, which sends the request (line 14).
InvocationFor(pageText) ==
    IF IsBlank(pageText)
    THEN Invocation("done", FALSE, <<AlertEmptyPage>>, JsonNull, 0)
    ELSE Invocation("fetching", FALSE, <<>>, JsonNull, 0)

HandleEventSelection(maxClicks) ==
    /\ ~MicrotaskPending
    /\ Len(invs) < maxClicks
    /\ \E pageText \in PageTexts : invs' = Append(invs, InvocationFor(pageText))
    /\ UNCHANGED <<calVars, dom, nodes, lastOpen>>

\* processEvents returns value after raising the notification alert (line 28,
\* 34 or 38); the then callback of line 349 is queued.
Resolved(inv, alert, value) ==
    [inv EXCEPT !.pc = "resolved", !.alerts = @ \o alert, !.result = value]

\* Line 14: the fetch promise settles: rejected (no connection), or fulfilled
\* with a response whose status is 2xx or not.
AfterFetch(inv, outcome) ==
    IF outcome = "rejected" THEN Resolved(inv, <<AlertCallFailed>>, JsonNull)
    ELSE [inv EXCEPT !.pc = "reading", !.ok = (outcome = "ok")]

FetchSettles ==
    /\ ~MicrotaskPending
    /\ \E i \in 1..Len(invs) :
          /\ invs[i].pc = "fetching"
          /\ \E outcome \in {"rejected", "ok", "not ok"} :
                invs' = [invs EXCEPT ![i] = AfterFetch(invs[i], outcome)]
    /\ UNCHANGED <<calVars, dom, nodes, lastOpen>>

\* Lines 22-39: the body is read: as text after a status that is not 2xx, as
\* JSON otherwise; the body is BodyFailed when reading or parsing it fails.
AfterBody(inv, body) ==
    IF body = BodyFailed THEN Resolved(inv, <<AlertCallFailed>>, JsonNull)
    ELSE IF ~inv.ok THEN Resolved(inv, <<AlertServerError>>, JsonNull)
    ELSE Resolved(inv, <<>>, body)

BodySettles(bodies) ==
    /\ ~MicrotaskPending
    /\ \E i \in 1..Len(invs) :
          /\ invs[i].pc = "reading"
          /\ \E body \in (IF invs[i].ok THEN bodies ELSE {BodyText}) \cup {BodyFailed} :
                invs' = [invs EXCEPT ![i] = AfterBody(invs[i], body)]
    /\ UNCHANGED <<calVars, dom, nodes, lastOpen>>

Finished(inv, alert, node) ==
    [inv EXCEPT !.pc = "done", !.alerts = @ \o alert, !.node = node]

\* Lines 350-359: !processedEvents || !Array.isArray(...) || length === 0
NothingProcessed(result) == result.type # "array" \/ Len(result.items) = 0

\* Lines 349-380: the then callback, for what processEvents returned; node is
\* the element a modal would be.
AfterThen(inv, node) ==
    IF NothingProcessed(inv.result) THEN Finished(inv, <<AlertNoEvents>>, 0)
    ELSE IF Len(Filter(inv.result.items)) = 0 THEN Finished(inv, <<AlertNoValid>>, 0)
    ELSE Finished(inv, <<>>, node)

ThenCallback ==
    \E i \in 1..Len(invs) :
       /\ invs[i].pc = "resolved"
       /\ invs' = [invs EXCEPT ![i] = AfterThen(invs[i], nodes + 1)]
       /\ IF AfterThen(invs[i], nodes + 1).node # 0
          THEN /\ dom' = displayEventSelectionModal(dom, Filter(invs[i].result.items), nodes + 1)
               /\ nodes' = nodes + 1
          ELSE UNCHANGED <<dom, nodes>>
       /\ UNCHANGED <<calVars, lastOpen>>

\* Lines 332-334: a click on the Close button of a modal of the document.
CloseClick ==
    /\ ~MicrotaskPending
    /\ \E k \in 1..Len(dom) : dom' = RemoveNode(dom, dom[k].node)
    /\ UNCHANGED <<calVars, invs, nodes, lastOpen>>

\* Lines 308-317: a click on "Add to Google Calendar" of a listed event; the
\* link is opened, or the notification raised when there is none.
AddToGoogleCalendarClick ==
    /\ ~MicrotaskPending
    /\ \E k \in 1..Len(dom) : \E j \in 1..Len(dom[k].listed) :
          \E today \in Nows, localDay \in LocalDays :
             lastOpen' = generateGoogleCalendarLink(dom[k].listed[j], PageUrl, today, localDay)
    /\ UNCHANGED <<calVars, invs, dom, nodes>>

InitUI ==
    /\ events = <<>>
    /\ icsOut = NoICS
    /\ linkOut = NoLink
    /\ invs = <<>>
    /\ dom = <<>>
    /\ nodes = 0
    /\ lastOpen = NoLink

\* One invocation, every response of up to MaxResp elements.
ClickOnce == HandleEventSelection(1)

ResponseArrives == BodySettles(SelectBodies)

NextSelect ==
    \/ ClickOnce
    \/ FetchSettles
    \/ ResponseArrives
    \/ ThenCallback
    \/ CloseClick
    \/ AddToGoogleCalendarClick

SpecSelect == InitUI /\ [][NextSelect]_vars

\* Up to MaxClicks invocations, their requests pending at once.
Click == HandleEventSelection(MaxClicks)

FewResponseArrives == BodySettles(FewBodies)

NextUI ==
    \/ Click
    \/ FetchSettles
    \/ FewResponseArrives
    \/ ThenCallback
    \/ CloseClick
    \/ AddToGoogleCalendarClick

SpecUI == InitUI /\ [][NextUI]_vars

(***************************************************************************)
(* The calendar, as the claims state it: what a date, a time, the next day *)
(* and the compact forms are, apart from how the program computes them.    *)
(***************************************************************************)
IsDigits(s) == \A i \in 1..Len(s) : s[i] \in Digits

Number(s) == DigitsToInt(s, 0)

LeapYear(y) == y % 4 = 0 /\ (y % 100 # 0 \/ y % 400 = 0)

DaysInMonth(y, m) ==
    IF m = 2 THEN (IF LeapYear(y) THEN 29 ELSE 28)
    ELSE IF m \in {4, 6, 9, 11} THEN 30 ELSE 31

\* YYYYMMDD with a month 01..12 and a day of that month.
IsCalendarDate(v) ==
    /\ v.kind = "string" /\ Len(v.s) = 8 /\ IsDigits(v.s)
    /\ Number(SubSeq(v.s, 5, 6)) \in 1..12
    /\ Number(SubSeq(v.s, 7, 8)) \in 1..DaysInMonth(Number(SubSeq(v.s, 1, 4)), Number(SubSeq(v.s, 5, 6)))

\* HHMMSS with an hour 00..23 and a minute and a second 00..59.
IsClockTime(v) ==
    /\ v.kind = "string" /\ Len(v.s) = 6 /\ IsDigits(v.s)
    /\ Number(SubSeq(v.s, 1, 2)) <= 23
    /\ Number(SubSeq(v.s, 3, 4)) <= 59
    /\ Number(SubSeq(v.s, 5, 6)) <= 59

\* A time that is absent, empty, or a text that is not six digits.
IsNoTime(v) ==
    \/ v.kind \in {"undefined", "null"}
    \/ v.kind = "string" /\ (Len(v.s) # 6 \/ ~IsDigits(v.s))

CompactDate(y, m, d) ==
    padStart(NatToStr(y), 4, "0") \o padStart(NatToStr(m), 2, "0") \o padStart(NatToStr(d), 2, "0")

\* The calendar day after y-m-d, as YYYYMMDD.
DayAfter(y, m, d) ==
    IF d < DaysInMonth(y, m) THEN CompactDate(y, m, d + 1)
    ELSE IF m < 12 THEN CompactDate(y, m + 1, 1)
    ELSE CompactDate(y + 1, 1, 1)

DayAfterText(date) ==
    DayAfter(Number(SubSeq(date, 1, 4)), Number(SubSeq(date, 5, 6)), Number(SubSeq(date, 7, 8)))

\* The compact timestamp 3600 seconds after date T time Z.
HourLater(date, time) ==
    IF Number(SubSeq(time, 1, 2)) < 23
    THEN date \o <<"T">> \o padStart(NatToStr(Number(SubSeq(time, 1, 2)) + 1), 2, "0")
         \o SubSeq(time, 3, 6) \o <<"Z">>
    ELSE DayAfterText(date) \o <<"T", "0", "0">> \o SubSeq(time, 3, 6) \o <<"Z">>

\* The current time, UTC, second precision: YYYYMMDDTHHMMSSZ.
CompactInstant(now) ==
    CompactDate(getUTCFullYear(now), getUTCMonth(now) + 1, getUTCDate(now))
    \o <<"T">> \o padStart(NatToStr(now.sec \div 3600), 2, "0")
    \o padStart(NatToStr((now.sec \div 60) % 60), 2, "0")
    \o padStart(NatToStr(now.sec % 60), 2, "0") \o <<"Z">>

NowTexts == {CompactInstant(now) : now \in Nows}

\* The k-th smallest element of a set of numbers.
Kth(S, k) == CHOOSE x \in S : Cardinality({y \in S : y < x}) = k - 1

\* The positions of the line feeds of a text.
Feeds(text) == {i \in 1..Len(text) : text[i] = "\n"}

\* The k-th run between the line feeds at the positions in feeds.
Run(text, feeds, k) ==
    SubSeq(text, IF k = 1 THEN 1 ELSE Kth(feeds, k - 1) + 1,
                 IF k > Cardinality(feeds) THEN Len(text) ELSE Kth(feeds, k) - 1)

\* The lines of a text: the runs between its line feeds.
LinesOf(text) == [k \in 1..(Cardinality(Feeds(text)) + 1) |-> Run(text, Feeds(text), k)]

HasLine(text, line) == \E i \in DOMAIN LinesOf(text) : LinesOf(text)[i] = line

StartsWith(text, prefix) ==
    Len(text) >= Len(prefix) /\ SubSeq(text, 1, Len(prefix)) = prefix

\* The lines of a text that start with a keyword, in order.
RECURSIVE Select(_, _)
Select(lines, keyword) ==
    IF Len(lines) = 0 THEN <<>>
    ELSE (IF StartsWith(Head(lines), <<keyword>>) THEN <<Head(lines)>> ELSE <<>>)
         \o Select(Tail(lines), keyword)

\* One event was given to the builders.
OneEvent == Len(events) = 1

ICSBuilt == icsOut.kind # "none"

LinkBuilt == linkOut.kind # "none"

(***************************************************************************)
(* C1: an event whose date is malformed (a length other than 8, a          *)
(* character that is no digit, a month outside 01-12, a day outside the    *)
(* month) gets the fallback instant, the current time, from generateICS    *)
(* and from generateGoogleCalendarLink, and neither ever throws, whatever  *)
(* the type or content of the date and the time.                           *)
(***************************************************************************)
C1_MalformedDateFallsBack ==
    OneEvent =>
       /\ icsOut.kind # "throw"
       /\ linkOut.kind # "throw"
       /\ (events[1].date.kind = "string" /\ ~IsCalendarDate(events[1].date)) =>
             /\ icsOut.kind = "url" =>
                   /\ \E now \in NowTexts : HasLine(icsOut.text, <<"DTSTART:">> \o now)
                   /\ Select(LinesOf(icsOut.text), "DTSTART;VALUE=DATE:") = <<>>
             /\ linkOut.kind = "url" => linkOut.start \in NowTexts

(***************************************************************************)
(* C2: for a date YYYYMMDD (any year 0000-9999, month 01-12, a day of the  *)
(* month) and a time HHMMSS in range, generateICS emits the line           *)
(* DTSTART:<date>T<time>Z and the dates of generateGoogleCalendarLink      *)
(* start with <date>T<time>Z.                                              *)
(***************************************************************************)
C2_TimedInstantIsInput ==
    (OneEvent /\ IsCalendarDate(events[1].date) /\ IsClockTime(events[1].time)) =>
       /\ ICSBuilt =>
             /\ icsOut.kind = "url"
             /\ HasLine(icsOut.text, <<"DTSTART:">> \o events[1].date.s \o <<"T">>
                                      \o events[1].time.s \o <<"Z">>)
       /\ (LinkBuilt /\ Truthy(events[1].title)) =>
             /\ linkOut.kind = "url"
             /\ StartsWith(linkOut.dates, events[1].date.s \o <<"T">> \o events[1].time.s \o <<"Z">>)

(***************************************************************************)
(* C3: for a valid date and a time that is absent, empty or malformed (not *)
(* exactly six digits), both builders render an all-day range, never an    *)
(* instant: the start is the input date and the end the next calendar day. *)
(***************************************************************************)
C3_NoTimeIsAllDay ==
    (OneEvent /\ IsCalendarDate(events[1].date) /\ IsNoTime(events[1].time)) =>
       /\ ICSBuilt =>
             /\ icsOut.kind = "url"
             /\ HasLine(icsOut.text, <<"DTSTART;VALUE=DATE:">> \o events[1].date.s)
             /\ HasLine(icsOut.text, <<"DTEND;VALUE=DATE:">> \o DayAfterText(events[1].date.s))
             /\ Select(LinesOf(icsOut.text), "DTSTART:") = <<>>
       /\ (LinkBuilt /\ Truthy(events[1].title)) =>
             /\ linkOut.kind = "url"
             /\ linkOut.dates = events[1].date.s \o <<"/">> \o DayAfterText(events[1].date.s)

\* The lines that open, close or fill the blocks: BEGIN and END alternate,
\* and between the k-th pair lie the k-th SUMMARY, one UID and one DTSTAMP.
BlockMarks(lines) ==
    [begins |-> {i \in 1..Len(lines) : lines[i] = <<"BEGIN:VEVENT">>},
     ends |-> {i \in 1..Len(lines) : lines[i] = <<"END:VEVENT">>}]

BlockLines(lines, marks, k) == SubSeq(lines, Kth(marks.begins, k), Kth(marks.ends, k))

WellFormedBlocks(lines, marks, evs) ==
    /\ Cardinality(marks.begins) = Len(evs)
    /\ Cardinality(marks.ends) = Len(evs)
    /\ \A k \in 1..Len(evs) :
          /\ Kth(marks.begins, k) < Kth(marks.ends, k)
          /\ k < Len(evs) => Kth(marks.ends, k) < Kth(marks.begins, k + 1)
          /\ \E i \in Kth(marks.begins, k)..Kth(marks.ends, k) :
                lines[i] = <<"SUMMARY:">> \o TextOr(evs[k].title, <<"No Title">>)
          /\ Len(Select(BlockLines(lines, marks, k), "UID:")) = 1
          /\ Len(Select(BlockLines(lines, marks, k), "UID:")[1]) > 1
          /\ Len(Select(BlockLines(lines, marks, k), "DTSTAMP:")) = 1
          /\ Len(Select(BlockLines(lines, marks, k), "DTSTAMP:")[1]) > 1

\* Every field of every event is a text or absent.
TextFields ==
    \A k \in 1..Len(events) :
       \A v \in {events[k].title, events[k].date, events[k].time, events[k].description} :
          v.kind \in {"string", "undefined"}

(***************************************************************************)
(* C4: generateICS returns null for no events; for n events, whatever text *)
(* the titles and descriptions hold, the document has exactly n            *)
(* BEGIN:VEVENT and n END:VEVENT lines, properly paired, the k-th block    *)
(* carries the k-th title, and each block has one non-empty UID line and   *)
(* one non-empty DTSTAMP line.                                             *)
(***************************************************************************)
C4_OneBlockPerEvent ==
    (ICSBuilt /\ TextFields) =>
       IF Len(events) = 0 THEN icsOut.kind = "null"
       ELSE /\ icsOut.kind = "url"
            /\ WellFormedBlocks(LinesOf(icsOut.text), BlockMarks(LinesOf(icsOut.text)), events)

(***************************************************************************)
(* C5: for a valid date and a valid time the dates of the link are S/E, S  *)
(* the compact UTC timestamp of the input and E the one exactly 3600       *)
(* seconds later, rolling over into the next day, month or year.           *)
(***************************************************************************)
C5_OneHourLater ==
    (OneEvent /\ IsCalendarDate(events[1].date) /\ IsClockTime(events[1].time)
       /\ Truthy(events[1].title) /\ LinkBuilt) =>
       /\ linkOut.kind = "url"
       /\ linkOut.dates = events[1].date.s \o <<"T">> \o events[1].time.s \o <<"Z", "/">>
                          \o HourLater(events[1].date.s, events[1].time.s)

(***************************************************************************)
(* C6: for an event with a title and a date, generateGoogleCalendarLink    *)
(* normalizes as generateICS does: the same variant and the same start,    *)
(* and for a date that cannot be parsed both use the fallback instant, the *)
(* current time at second precision, not a date range.                     *)
(***************************************************************************)
C6_SameNormalization ==
    (OneEvent /\ icsOut.kind = "url" /\ linkOut.kind = "url") =>
       \/ /\ HasLine(icsOut.text, <<"DTSTART;VALUE=DATE:">> \o linkOut.start)
          /\ Select(LinesOf(icsOut.text), "DTSTART:") = <<>>
       \/ /\ Select(LinesOf(icsOut.text), "DTSTART;VALUE=DATE:") = <<>>
          /\ \/ HasLine(icsOut.text, <<"DTSTART:">> \o linkOut.start)
             \/ /\ \E now \in NowTexts : HasLine(icsOut.text, <<"DTSTART:">> \o now)
                /\ linkOut.start \in NowTexts

\* A compact UTC timestamp: 8 digits, T, 6 digits, Z.
IsCompactStamp(v) ==
    /\ Len(v) = 16
    /\ IsDigits(SubSeq(v, 1, 8)) /\ v[9] = "T" /\ IsDigits(SubSeq(v, 10, 15)) /\ v[16] = "Z"

(***************************************************************************)
(* C7: in every VEVENT block the DTSTAMP value is YYYYMMDDTHHMMSSZ:        *)
(* 8 digits, the letter T, 6 digits and a single Z, no fraction digits.    *)
(***************************************************************************)
C7_StampIsCompact ==
    icsOut.kind = "url" =>
       \A i \in 1..Len(Select(LinesOf(icsOut.text), "DTSTAMP:")) :
          IsCompactStamp(Tail(Select(LinesOf(icsOut.text), "DTSTAMP:")[i]))

(***************************************************************************)
(* The selection flow, as the claims state it.                             *)
(***************************************************************************)
\* A field that is present and non-empty: a text with a character, a number
\* other than 0, an object.
PresentNonEmpty(v) ==
    \/ v.kind = "string" /\ Len(v.s) > 0
    \/ v.kind = "number" /\ v.n # 0
    \/ v.kind \in {"object", "array"}

\* A validated event: a non-null object with title, date and time.
IsValidated(e) ==
    /\ e.type = "object"
    /\ PresentNonEmpty(e.title) /\ PresentNonEmpty(e.date) /\ PresentNonEmpty(e.time)

Validated(items) == SelectSeq(items, IsValidated)

FirstFive(evs) == IF Len(evs) <= 5 THEN evs ELSE SubSeq(evs, 1, 5)

\* The invocation got an array from the extraction service and has handled it.
HandledArray(inv) == inv.pc = "done" /\ inv.result.type = "array"

\* The modal of an invocation, while it is in the document, lists evs.
ModalLists(inv, evs) ==
    /\ inv.node # 0
    /\ inv.alerts = <<>>
    /\ \A k \in 1..Len(dom) : dom[k].node = inv.node => dom[k].listed = evs

\* No modal, and the one notification.
OnlyNotifies(inv, alert) == inv.node = 0 /\ inv.alerts = <<alert>>

OnlyValidatedListed ==
    \A k \in 1..Len(dom) : \A j \in 1..Len(dom[k].listed) : IsValidated(dom[k].listed[j])

(***************************************************************************)
(* C8, as stated: for every array response the modal lists the first       *)
(* min(5, n) of the n validated events, in response order; no element      *)
(* without a title, a date or a time is listed; and with n = 0 there is no *)
(* modal and the 'no valid events' notification is raised.                 *)
(***************************************************************************)
C8_ListsFirstFive ==
    /\ OnlyValidatedListed
    /\ \A i \in 1..Len(invs) :
          HandledArray(invs[i]) =>
             IF Len(Validated(invs[i].result.items)) > 0
             THEN ModalLists(invs[i], FirstFive(Validated(invs[i].result.items)))
             ELSE OnlyNotifies(invs[i], AlertNoValid)

(***************************************************************************)
(* C8, amended: as above, but with n = 0 the notification is the 'no valid *)
(* events' one for an array that has elements and the 'no events found'    *)
(* one for an array that has none.                                         *)
(***************************************************************************)
C8_ListsFirstFiveOrNotifies ==
    /\ OnlyValidatedListed
    /\ \A i \in 1..Len(invs) :
          HandledArray(invs[i]) =>
             IF Len(Validated(invs[i].result.items)) > 0
             THEN ModalLists(invs[i], FirstFive(Validated(invs[i].result.items)))
             ELSE IF Len(invs[i].result.items) > 0
             THEN OnlyNotifies(invs[i], AlertNoValid)
             ELSE OnlyNotifies(invs[i], AlertNoEvents)

\* A response with more than five validated events has been handled, and its
\* modal, listing five, is in the document.
C8_FiveOfMoreListed ==
    \E i \in 1..Len(invs) :
       /\ HandledArray(invs[i])
       /\ Len(Validated(invs[i].result.items)) > 5
       /\ \E k \in 1..Len(dom) : dom[k].node = invs[i].node /\ Len(dom[k].listed) = 5

\* The extraction call of the invocation failed: no connection, a status
\* that is not 2xx, or a body that is no JSON.
CallFailed(inv) ==
    \E j \in 1..Len(inv.alerts) : inv.alerts[j] \in {AlertCallFailed, AlertServerError}

(***************************************************************************)
(* C9: an invocation whose extraction call fails shows one error           *)
(* notification and aborts: no second notification and no modal.           *)
(***************************************************************************)
C9_OneNotificationOnFailure ==
    \A i \in 1..Len(invs) :
       CallFailed(invs[i]) => Len(invs[i].alerts) = 1 /\ invs[i].node = 0

(***************************************************************************)
(* C10: under any interleaving of trigger clicks, responses and Close      *)
(* clicks, the document holds at most one element with the id              *)
(* eventSelectionModal.                                                    *)
(***************************************************************************)
C10_AtMostOneModal == Len(dom) <= 1

\* Two invocations have each displayed a modal, the one of the first click
\* last, and that one is in the document.
C10_LaterModalShown ==
    /\ Len(invs) >= 2
    /\ invs[1].node = 2 /\ invs[2].node = 1
    /\ Len(dom) = 1 /\ dom[1].node = 2

====
